---- MODULE Spec2Model ----
(***************************************************************************)
(* Bloom filters of whong92/bloomfilter (bloomfilter.py): the fixed-size   *)
(* bloomFilterBasic, the capacity/fpr-sized bloomFilter and the growing    *)
(* scalableBloomFilter, as one object under test that a caller constructs  *)
(* and then drives through add_item / query_item (and the two public       *)
(* estimator methods).                                                     *)
(*                                                                         *)
(* Numbers.  Python ints are integers.  A Python float that the code only  *)
(* passes around or multiplies (cap, fpr, s, r) is an exact rational       *)
(* <<num, den>> with den > 0, in lowest terms.  math.log yields a rational *)
(* with denominator 10^6 (six decimals, computed from a series at eight    *)
(* decimals), and math.pow rounds to the same grid.                        *)
(***************************************************************************)
EXTENDS Integers, Sequences, FiniteSets, TLC

\* A float the code only passes around or multiplies: <<num, den>>
Rational == Int \X (Nat \ {0})

\* The shapes of the records below: the arguments of a constructor call, a
\* bloomFilterBasic or bloomFilter object (p and n only on the latter), a
\* scalableBloomFilter object, and the outcome of a call.  TLC keeps the
\* fields of a record in the order of their first mention, which is this
\* one; every record below lists its fields in it.
CallShape ==
    [cls : STRING, n_bits : Int, n_hash : Int, cap : Rational, fpr : Rational,
     cap0 : Rational, s : Rational, r : Rational]

FilterShape ==
    [cls : STRING, m : Nat, k : Nat, bit_array : [Nat -> {0, 1}], x : Nat,
     p : Rational, n : Rational]

ScalableShape ==
    [cls : STRING, s : Rational, r : Rational, cap_current : Rational,
     fpr_current : Rational, filters : Seq(FilterShape)]

OutcomeShape == [raised : STRING, self : FilterShape \cup ScalableShape, ret : Seq(BOOLEAN \cup Int)]

\* Items offered to add_item / query_item are the ints 0..MaxItem.
MaxItem == 5

Items == 0 .. MaxItem

\* The list []: an object whose __hash__ is None.  Among the items it is
\* written -1.
EmptyList == -1

\* what a caller passes to add_item / query_item
Offered == Items \cup {EmptyList}

----------------------------------------------------------------------------
(* Float arithmetic on rationals *)

Abs(a) == IF a < 0 THEN -a ELSE a

RECURSIVE GCD(_, _)
GCD(a, b) == IF b = 0 THEN a ELSE GCD(b, a % b)

\* int -> float
float(i) == <<i, 1>>

\* a * b, cancelling crosswise before multiplying
RMul(a, b) ==
    LET g1 == GCD(Abs(a[1]), b[2])
        g2 == GCD(Abs(b[1]), a[2])
        h1 == IF g1 = 0 THEN 1 ELSE g1
        h2 == IF g2 = 0 THEN 1 ELSE g2
    IN  <<(a[1] \div h1) * (b[1] \div h2), (a[2] \div h2) * (b[2] \div h1)>>

\* a / b for b > 0
RDiv(a, b) == RMul(a, <<b[2], b[1]>>)

\* 1 - a
ROneMinus(a) == <<a[2] - a[1], a[2]>>

RNeg(a) == <<-a[1], a[2]>>

RLt(a, b) == a[1] * b[2] < b[1] * a[2]

REq(a, b) == a[1] * b[2] = b[1] * a[2]

\* int(): truncation towards zero
int(a) == IF a[1] >= 0 THEN a[1] \div a[2] ELSE -((-a[1]) \div a[2])

----------------------------------------------------------------------------
(* math.log, math.pow *)

\* 10^8: the series for ln is summed at eight decimals
LnScale == 10^8

\* 10^6: the grid of math.log's and math.pow's results
Micro == 10^6

\* a / b rounded to the nearest integer, for a >= 0 and b > 0
RoundDiv(a, b) == (2 * a + b) \div (2 * b)

\* t/j + (t/q2)/(j+2) + ...: the tail of atanh(1/q) = 1/q + 1/(3 q^3) + ...
RECURSIVE AtanhSum(_, _, _)
AtanhSum(t, q2, j) ==
    IF t = 0 THEN 0 ELSE RoundDiv(t, j) + AtanhSum(RoundDiv(t, q2), q2, j + 2)

\* ln(n) * 10^8 for an integer n >= 1: ln(2n) = ln 2 + ln n, and
\* ln(n) = ln(n-1) + 2 atanh(1/(2n-1))
RECURSIVE LnNat(_)
LnNat(v) ==
    IF v = 1 THEN 0
    ELSE IF v > 2 /\ v % 2 = 0 THEN LnNat(2) + LnNat(v \div 2)
    ELSE LnNat(v - 1) + 2 * AtanhSum(RoundDiv(LnScale, 2 * v - 1), (2 * v - 1) * (2 * v - 1), 1)

\* math.log(y) raises ValueError ("math domain error") for y <= 0
math_log_raises(y) == y[1] <= 0

\* math.log(y) for y > 0
math_log(y) ==
    LET l == LnNat(y[1]) - LnNat(y[2])
    IN  <<IF l >= 0 THEN RoundDiv(l, LnScale \div Micro)
                    ELSE -RoundDiv(-l, LnScale \div Micro), Micro>>

\* math.log(y, 2): CPython divides log(y) by log(2)
math_log2(y) == RDiv(math_log(y), math_log(float(2)))

\* math.pow(y, 2) for y on the 10^-6 grid, rounded to the grid
math_pow2(y) ==
    LET a == y[1]
    IN  <<RoundDiv((a \div 1000) * a + ((a % 1000) * a) \div 1000, 1000), Micro>>

----------------------------------------------------------------------------
(* Hashing *)

\* item.__hash__() of a small non-negative int is the int itself
hash(item) == item

\* item.__hash__() of a list calls None: TypeError
hash_raises(item) == item = EmptyList

\* str() of an int in 0..9 is its decimal digit
str(i) == <<"0", "1", "2", "3", "4", "5", "6", "7", "8", "9">>[i + 1]

\* mmh3.hash(key, seed): MurmurHash3_x86_32 as a signed 32-bit int, tabulated
\* for the keys "0".."9" (rows) and the seeds 0..7 (columns)
Mmh3Table ==
    "0" :> <<-764297089, -1302509589, 1355481018, 384918240, 1449640011, -1793539243, 1227198636, -315548351>> @@
    "1" :> <<-1810453357, -1570063170, 875522973, -126235597, -172315920, -346150140, 885878885, -793765815>> @@
    "2" :> <<19522071, -497233321, -623552190, -303927213, -561241655, 1919884251, -73672499, 856283706>> @@
    "3" :> <<264741300, 1849022499, 1695794743, -1151172406, -449130622, 1176859697, -883943078, 170839689>> @@
    "4" :> <<-516830072, -1532871171, 791285798, -1265741853, 1413418559, 1718256091, 1152773094, 1307020849>> @@
    "5" :> <<1394226660, 781717054, -1465390754, -1501624929, 1101165502, 1530567399, -199111913, 1745591429>> @@
    "6" :> <<670727360, 194085766, -1899413246, -1677976503, -1949916299, 1076736204, 923133928, -14800606>> @@
    "7" :> <<602572328, -409191789, 1711925321, -1167431322, -1283803082, 463052825, 108554723, 859453796>> @@
    "8" :> <<-1114505193, 264391950, -184002522, 735335986, 1782271311, 1880138269, -2131240906, 2119693383>> @@
    "9" :> <<613148321, 57985267, 609422107, 824610026, 436419520, -755526127, 1219120360, -97302524>>

mmh3_hash(key, seed) == Mmh3Table[key][seed + 1]

----------------------------------------------------------------------------
(* Outcome of a call: it raises e and leaves the object as self, or it      *)
(* returns ret and leaves the object as self.  ret is <<>> for None, <<b>>  *)
(* for a bool, <<num, den>> for a float.                                    *)

\* a method of self raises e
RaiseIn(self, e) == [raised |-> e, self |-> self]

\* a constructor raises e: there is no object
Raise(e) == RaiseIn([cls |-> "none"], e)

Return(self, v) == [raised |-> "none", self |-> self, ret |-> v]

None == <<>>

----------------------------------------------------------------------------
(* class bloomFilterBasic *)

\* bitarray(m) whose bits were never cleared
bitarray_unset(size) == [b \in 0 .. size - 1 |-> 1]

\* bitarray(m); setall(0)
bitarray(size) == [b \in 0 .. size - 1 |-> 0]

bloomFilterBasic_init(n_bits, n_hash) ==
    IF ~(n_bits > 0 /\ n_hash > 0) THEN Raise("AssertionError")
    ELSE Return([cls |-> "bloomFilterBasic", m |-> n_bits, k |-> n_hash,
                 bit_array |-> bitarray(n_bits), x |-> 0], None)

_compute_hash(self, item, i) == mmh3_hash(str(hash(item)), i) % self.m

\* add_item's loop body counting the bit whether or not it was clear
add_item_bit_counted(self, h) ==
    [self EXCEPT !.bit_array[h] = 1, !.x = @ + 1]

\* the body of add_item's loop for the bit position h
add_item_bit(self, h) ==
    IF self.bit_array[h] = 0
    THEN [self EXCEPT !.bit_array[h] = 1, !.x = @ + 1]
    ELSE self

\* add_item's loop counting a bit before it computes the bit's position
RECURSIVE add_item_loop_count_first(_, _, _)
add_item_loop_count_first(self, item, i) ==
    IF i >= self.k THEN Return(self, None)
    ELSE IF hash_raises(item) THEN RaiseIn([self EXCEPT !.x = @ + 1], "TypeError")
    ELSE add_item_loop_count_first(add_item_bit(self, _compute_hash(self, item, i)),
                                   item, i + 1)

\* for i in range(self.k), from i on; _compute_hash raises where
\* item.__hash__() does
RECURSIVE add_item_loop(_, _, _)
add_item_loop(self, item, i) ==
    IF i >= self.k THEN Return(self, None)
    ELSE IF hash_raises(item) THEN RaiseIn(self, "TypeError")
    ELSE add_item_loop(add_item_bit(self, _compute_hash(self, item, i)), item, i + 1)

bloomFilterBasic_add_item(self, item) == add_item_loop(self, item, 0)

\* query_item's loop setting the clear bit it finds
RECURSIVE query_item_loop_setting(_, _, _)
query_item_loop_setting(self, item, i) ==
    IF i >= self.k THEN Return(self, <<TRUE>>)
    ELSE IF hash_raises(item) THEN RaiseIn(self, "TypeError")
    ELSE IF self.bit_array[_compute_hash(self, item, i)] = 0
         THEN Return(add_item_bit(self, _compute_hash(self, item, i)), <<FALSE>>)
    ELSE query_item_loop_setting(self, item, i + 1)

\* for i in range(self.k), from i on: False at the first clear bit
RECURSIVE query_item_loop(_, _, _)
query_item_loop(self, item, i) ==
    IF i >= self.k THEN Return(self, <<TRUE>>)
    ELSE IF hash_raises(item) THEN RaiseIn(self, "TypeError")
    ELSE IF self.bit_array[_compute_hash(self, item, i)] = 0 THEN Return(self, <<FALSE>>)
    ELSE query_item_loop(self, item, i + 1)

bloomFilterBasic_query_item(self, item) == query_item_loop(self, item, 0)

approximate_num_items(self) ==
    LET arg == ROneMinus(<<self.x, self.m>>)
    IN  IF math_log_raises(arg) THEN RaiseIn(self, "ValueError")
        ELSE Return(self, RMul(RNeg(<<self.m, self.k>>), math_log(arg)))

----------------------------------------------------------------------------
(* class bloomFilter(bloomFilterBasic) *)

m_opt(cap, fpr) == -int(RDiv(RMul(cap, math_log(fpr)), math_pow2(math_log(float(2)))))

k_opt(fpr) == -int(math_log2(fpr))

bloomFilter_init(cap, fpr) ==
    IF ~(RLt(float(0), fpr) /\ RLt(fpr, float(1))) THEN Raise("AssertionError")
    ELSE IF ~RLt(float(0), cap) THEN Raise("AssertionError")
    ELSE LET super == bloomFilterBasic_init(m_opt(cap, fpr), k_opt(fpr))
         IN  IF super.raised # "none" THEN super
             ELSE Return([cls |-> "bloomFilter", m |-> super.self.m, k |-> super.self.k,
                          bit_array |-> super.self.bit_array, x |-> super.self.x,
                          p |-> fpr, n |-> cap], None)

is_at_capacity(self) ==
    LET a == approximate_num_items(self)
    IN  IF a.raised # "none" THEN a
        ELSE Return(self, <<RLt(self.n, a.ret)>>)

----------------------------------------------------------------------------
(* class scalableBloomFilter *)

\* a constructor that lets the growth rate 1 through
scalableBloomFilter_init_s1(fpr, cap0, s, r) ==
    IF ~(RLt(fpr, float(1)) /\ RLt(float(0), fpr)) THEN Raise("AssertionError")
    ELSE IF ~RLt(float(0), cap0) THEN Raise("AssertionError")
    ELSE IF RLt(s, float(1)) THEN Raise("AssertionError")
    ELSE IF ~(RLt(float(0), r) /\ RLt(r, float(1))) THEN Raise("AssertionError")
    ELSE LET f == bloomFilter_init(cap0, RMul(fpr, r))
         IN  IF f.raised # "none" THEN f
             ELSE Return([cls |-> "scalableBloomFilter", s |-> s, r |-> r,
                          cap_current |-> cap0, fpr_current |-> RMul(fpr, r),
                          filters |-> <<f.self>>], None)

\* the attributes lines 157-161 set
scalableBloomFilter_self(cap_current, fpr_current, s, r, filters) ==
    [cls |-> "scalableBloomFilter", s |-> s, r |-> r, cap_current |-> cap_current,
     fpr_current |-> fpr_current, filters |-> filters]

scalableBloomFilter_init(fpr, cap0, s, r) ==
    IF ~(RLt(fpr, float(1)) /\ RLt(float(0), fpr)) THEN Raise("AssertionError")
    ELSE IF ~RLt(float(0), cap0) THEN Raise("AssertionError")
    ELSE IF ~RLt(float(1), s) THEN Raise("AssertionError")
    ELSE IF ~(RLt(float(0), r) /\ RLt(r, float(1))) THEN Raise("AssertionError")
    ELSE LET f == bloomFilter_init(cap0, RMul(fpr, r))
         IN  IF f.raised # "none" THEN f
             ELSE Return(scalableBloomFilter_self(cap0, RMul(fpr, r), s, r, <<f.self>>),
                         None)

\* a query that asks the oldest filter only
scalable_query_first(self, item, i) ==
    LET q == bloomFilterBasic_query_item(self.filters[1], item)
    IN  IF q.raised # "none" THEN RaiseIn(self, q.raised) ELSE Return(self, q.ret)

\* a query that asks the newest filter only
scalable_query_last(self, item, i) ==
    LET q == bloomFilterBasic_query_item(self.filters[Len(self.filters)], item)
    IN  IF q.raised # "none" THEN RaiseIn(self, q.raised) ELSE Return(self, q.ret)

\* for filter in self.filters, from index i on: True at the first positive
RECURSIVE scalable_query_loop(_, _, _)
scalable_query_loop(self, item, i) ==
    IF i > Len(self.filters) THEN Return(self, <<FALSE>>)
    ELSE LET q == bloomFilterBasic_query_item(self.filters[i], item)
         IN  IF q.raised # "none" THEN RaiseIn(self, q.raised)
             ELSE IF q.ret[1] THEN Return(self, <<TRUE>>)
             ELSE scalable_query_loop(self, item, i + 1)

scalableBloomFilter_query_item(self, item) == scalable_query_loop(self, item, 1)

\* growth that appends the new filter and leaves the item out of it
scalable_grow_empty(self, item) ==
    LET cap == RMul(self.cap_current, self.s)
        fpr == RMul(self.fpr_current, self.r)
        f   == bloomFilter_init(cap, fpr)
    IN  IF f.raised # "none" THEN f
        ELSE Return([self EXCEPT !.cap_current = cap, !.fpr_current = fpr,
                         !.filters = Append(@, f.self)], None)

\* growth that scales the capacity and keeps the old rate
scalable_grow_same_rate(self, item) ==
    LET cap == RMul(self.cap_current, self.s)
        f   == bloomFilter_init(cap, self.fpr_current)
    IN  IF f.raised # "none" THEN f
        ELSE Return([self EXCEPT !.cap_current = cap,
                         !.filters = Append(@, bloomFilterBasic_add_item(f.self, item).self)],
                    None)

\* growth that appends the new filter and adds to the filter before it
scalable_grow_add_old(self, item) ==
    LET cap    == RMul(self.cap_current, self.s)
        fpr    == RMul(self.fpr_current, self.r)
        scaled == [self EXCEPT !.cap_current = cap, !.fpr_current = fpr]
        f      == bloomFilter_init(cap, fpr)
        a      == bloomFilterBasic_add_item(self.filters[Len(self.filters)], item)
        grown  == [scaled EXCEPT !.filters = Append([@ EXCEPT ![Len(@)] = a.self], f.self)]
    IN  IF f.raised # "none" THEN RaiseIn(scaled, f.raised)
        ELSE IF a.raised # "none" THEN RaiseIn(grown, a.raised)
        ELSE Return(grown, None)

\* lines 187-190: grow the chain and add to the new last filter
scalable_grow(self, item) ==
    LET cap    == RMul(self.cap_current, self.s)
        fpr    == RMul(self.fpr_current, self.r)
        scaled == [self EXCEPT !.cap_current = cap, !.fpr_current = fpr]
        f      == bloomFilter_init(cap, fpr)
        a      == bloomFilterBasic_add_item(f.self, item)
        grown  == [scaled EXCEPT !.filters = Append(@, a.self)]
    IN  IF f.raised # "none" THEN RaiseIn(scaled, f.raised)
        ELSE IF a.raised # "none" THEN RaiseIn(grown, a.raised)
        ELSE Return(grown, None)

\* an add that goes to the oldest filter of the chain
scalable_add_first(self, item) ==
    LET a  == bloomFilterBasic_add_item(self.filters[1], item)
        to == [self EXCEPT !.filters[1] = a.self]
    IN  IF a.raised # "none" THEN RaiseIn(to, a.raised) ELSE Return(to, None)

\* lines 183-185: add to the last filter
scalable_add_last(self, item) ==
    LET a  == bloomFilterBasic_add_item(self.filters[Len(self.filters)], item)
        to == [self EXCEPT !.filters[Len(self.filters)] = a.self]
    IN  IF a.raised # "none" THEN RaiseIn(to, a.raised) ELSE Return(to, None)

\* add_item without the query that guards it
scalableBloomFilter_add_item_unguarded(self, item) ==
    LET c == is_at_capacity(self.filters[Len(self.filters)])
    IN  IF c.raised # "none" THEN RaiseIn(self, c.raised)
        ELSE IF ~c.ret[1] THEN scalable_add_last(self, item)
        ELSE scalable_grow(self, item)

\* add_item that asks the last filter for its capacity before it queries
scalableBloomFilter_add_item_check_first(self, item) ==
    LET c == is_at_capacity(self.filters[Len(self.filters)])
        q == scalableBloomFilter_query_item(self, item)
    IN  IF c.raised # "none" THEN RaiseIn(self, c.raised)
        ELSE IF q.raised # "none" THEN q
        ELSE IF q.ret[1] THEN Return(self, None)
        ELSE IF ~c.ret[1] THEN scalable_add_last(self, item)
        ELSE scalable_grow(self, item)

\* add_item that grows the chain whether or not the last filter is at capacity
scalableBloomFilter_add_item_eager(self, item) ==
    LET q == scalableBloomFilter_query_item(self, item)
    IN  IF q.raised # "none" THEN q
        ELSE IF q.ret[1] THEN Return(self, None)
        ELSE scalable_grow(self, item)

scalableBloomFilter_add_item(self, item) ==
    LET q == scalableBloomFilter_query_item(self, item)
        c == is_at_capacity(self.filters[Len(self.filters)])
    IN  IF q.raised # "none" THEN q
        ELSE IF q.ret[1] THEN Return(self, None)
        ELSE IF c.raised # "none" THEN RaiseIn(self, c.raised)
        ELSE IF ~c.ret[1] THEN scalable_add_last(self, item)
        ELSE scalable_grow(self, item)

----------------------------------------------------------------------------
(* The caller: one object under test, constructed once and then used.       *)

VARIABLES
    BF,     \* the object (self.BF of the tests), NoObj before construction
    args,   \* the arguments of the last constructor call
    op,     \* the last call: <<method>> or <<method, item>>
    raised, \* the exception the last call raised, "none" if it returned
    ret,    \* what the last call returned (<<>> if it raised)
    added,  \* the items for which add_item has returned
    again   \* the last call was add_item of an item already in added

vars == <<BF, args, op, raised, ret, added, again>>

NoObj == [cls |-> "none"]

\* argument values the caller tries
BasicBits == {-1, 0, 4, 6}

BasicHashes == {0, 1, 2}

Caps == {<<-1, 1>>, <<0, 1>>, <<1, 2>>, <<1, 1>>, <<2, 1>>}

Fprs == {<<-1, 10>>, <<0, 1>>, <<1, 10>>, <<1, 4>>, <<1, 2>>, <<3, 5>>, <<1, 1>>}

\* <<cap, fpr>>: the grid, and bloomFilter(cap=100, fpr=0.1) of the demonstration
BloomArgs == (Caps \X Fprs) \cup {<<<<100, 1>>, <<1, 10>>>>}

ScalableFprs == {<<0, 1>>, <<1, 2>>, <<9, 10>>, <<1, 1>>}

ScalableCaps == {<<0, 1>>, <<1, 1>>, <<3, 2>>, <<2, 1>>}

GrowthRates == {<<1, 1>>, <<3, 2>>, <<2, 1>>}

FprMultipliers == {<<0, 1>>, <<1, 2>>, <<9, 10>>, <<1, 1>>}

Init ==
    /\ BF = NoObj
    /\ args = <<>>
    /\ op = <<>>
    /\ raised = "none"
    /\ ret = None
    /\ added = {}
    /\ again = FALSE

\* the outcome o of the call c on BF
Called(c, o) ==
    /\ op' = c
    /\ raised' = o.raised
    /\ BF' = o.self
    /\ ret' = IF o.raised = "none" THEN o.ret ELSE None

\* the constructors, callable while there is no object
NewBloomFilterBasic ==
    \E n_bits \in BasicBits, n_hash \in BasicHashes :
        /\ BF.cls = "none"
        /\ args' = [cls |-> "bloomFilterBasic", n_bits |-> n_bits, n_hash |-> n_hash]
        /\ Called(<<"__init__">>, bloomFilterBasic_init(n_bits, n_hash))
        /\ UNCHANGED <<added, again>>

NewBloomFilter ==
    \E a \in BloomArgs :
        /\ BF.cls = "none"
        /\ args' = [cls |-> "bloomFilter", cap |-> a[1], fpr |-> a[2]]
        /\ Called(<<"__init__">>, bloomFilter_init(a[1], a[2]))
        /\ UNCHANGED <<added, again>>

NewScalableBloomFilter ==
    \E fpr \in ScalableFprs, cap0 \in ScalableCaps, s \in GrowthRates, r \in FprMultipliers :
        /\ BF.cls = "none"
        /\ args' = [cls |-> "scalableBloomFilter", fpr |-> fpr, cap0 |-> cap0,
                    s |-> s, r |-> r]
        /\ Called(<<"__init__">>, scalableBloomFilter_init(fpr, cap0, s, r))
        /\ UNCHANGED <<added, again>>

\* method resolution of add_item / query_item
add_item(self, item) ==
    IF self.cls = "scalableBloomFilter" THEN scalableBloomFilter_add_item(self, item)
    ELSE bloomFilterBasic_add_item(self, item)

query_item(self, item) ==
    IF self.cls = "scalableBloomFilter" THEN scalableBloomFilter_query_item(self, item)
    ELSE bloomFilterBasic_query_item(self, item)

AddItem ==
    \E item \in Offered :
        LET o == add_item(BF, item)
        IN  /\ BF.cls # "none"
            /\ Called(<<"add_item", item>>, o)
            /\ added' = IF o.raised = "none" THEN added \cup {item} ELSE added
            /\ again' = (item \in added)
            /\ args' = args

QueryItem ==
    \E item \in Offered :
        /\ BF.cls # "none"
        /\ Called(<<"query_item", item>>, query_item(BF, item))
        /\ again' = FALSE
        /\ UNCHANGED <<added, args>>

ApproximateNumItems ==
    /\ BF.cls \in {"bloomFilterBasic", "bloomFilter"}
    /\ Called(<<"approximate_num_items">>, approximate_num_items(BF))
    /\ again' = FALSE
    /\ UNCHANGED <<added, args>>

IsAtCapacity ==
    /\ BF.cls = "bloomFilter"
    /\ Called(<<"is_at_capacity">>, is_at_capacity(BF))
    /\ again' = FALSE
    /\ UNCHANGED <<added, args>>

Next ==
    \/ NewBloomFilterBasic
    \/ NewBloomFilter
    \/ NewScalableBloomFilter
    \/ AddItem
    \/ QueryItem
    \/ ApproximateNumItems
    \/ IsAtCapacity

Spec == Init /\ [][Next]_vars

----------------------------------------------------------------------------
(* Properties *)

\* the filters of an object: the chain of a scalable filter, else the object
Filters(obj) ==
    IF obj.cls = "none" THEN <<>>
    ELSE IF obj.cls = "scalableBloomFilter" THEN obj.filters
    ELSE <<obj>>

\* the number of bits of f.bit_array that are 1
PopCount(f) == Cardinality({b \in DOMAIN f.bit_array : f.bit_array[b] = 1})

\* what query_item(item) returns on obj
Positive(obj, item) == query_item(obj, item).ret[1]

\* C1: no false negatives.  Every item for which add_item has returned is
\* answered True by query_item, on each class and in every later state; a
\* query_item call for such an item has returned True.
C1_NoFalseNegatives ==
    /\ \A item \in added : Positive(BF, item)
    /\ (Len(op) = 2 /\ op[1] = "query_item" /\ op[2] \in added) => ret = <<TRUE>>

\* C1 happens: on a grown scalable filter a query for an added item returned True
C1_Witness ==
    /\ BF.cls = "scalableBloomFilter"
    /\ Len(BF.filters) >= 2
    /\ Len(op) = 2 /\ op[1] = "query_item" /\ op[2] \in added
    /\ bloomFilterBasic_query_item(BF.filters[1], op[2]).ret[1]
    /\ ret = <<TRUE>>

\* C2: a constructed filter on which add_item has not been called answers
\* False to query_item for every (hashable) item.
C2_EmptyFilter ==
    (BF.cls # "none" /\ added = {}) =>
        /\ \A item \in Items : ~Positive(BF, item)
        /\ (op[1] = "query_item" /\ op[2] \in Items) => ret = <<FALSE>>

\* C2 happens: a query on an unused filter of each class... here the scalable one
C2_Witness ==
    /\ BF.cls = "scalableBloomFilter"
    /\ added = {}
    /\ op[1] = "query_item"
    /\ ret = <<FALSE>>

\* C3: on a scalable filter an item that query_item answers True (added or
\* not) is answered True after every further call.
C3_PermanentPositive ==
    [][\A item \in Items :
          (BF.cls = "scalableBloomFilter" /\ Positive(BF, item)) => Positive(BF', item)]_vars

\* C3 happens: a grown chain answers True for an item never added, through
\* a filter that is no longer the last
C3_Witness ==
    /\ BF.cls = "scalableBloomFilter"
    /\ Len(BF.filters) >= 2
    /\ \E item \in Items \ added :
          /\ bloomFilterBasic_query_item(BF.filters[1], item).ret[1]
          /\ ~bloomFilterBasic_query_item(BF.filters[Len(BF.filters)], item).ret[1]

\* C4: add_item(item) on a scalable filter that already answers True for
\* item returns None and leaves the object (the chain, every bit array and
\* counter, cap_current, fpr_current) as it was.
C4_IdempotentAdd ==
    [][\A item \in Items :
          (/\ BF.cls = "scalableBloomFilter"
           /\ Positive(BF, item)
           /\ op' = <<"add_item", item>>)
          => (BF' = BF /\ raised' = "none" /\ ret' = None)]_vars

\* C4 happens: add_item returned for an item that had been added before
C4_Witness ==
    /\ BF.cls = "scalableBloomFilter"
    /\ op[1] = "add_item"
    /\ again
    /\ raised = "none"
    /\ Len(BF.filters) >= 2

RECURSIVE RPow(_, _)
RPow(a, e) == IF e = 0 THEN float(1) ELSE RMul(a, RPow(a, e - 1))

\* C5: in a scalable filter constructed with cap0, s, r the filter of index i
\* (from 0) has capacity cap0 * s^i and rate rate_0 * r^i, rate_0 the rate of
\* filter 0, and cap_current, fpr_current are those of the last filter.
C5_GrowthCorrectness ==
    BF.cls = "scalableBloomFilter" =>
        /\ \A i \in 1 .. Len(BF.filters) :
              /\ REq(BF.filters[i].n, RMul(args.cap0, RPow(args.s, i - 1)))
              /\ REq(BF.filters[i].p, RMul(BF.filters[1].p, RPow(args.r, i - 1)))
        /\ REq(BF.cap_current, BF.filters[Len(BF.filters)].n)
        /\ REq(BF.fpr_current, BF.filters[Len(BF.filters)].p)
        /\ BF.s = args.s /\ BF.r = args.r

\* C5 happens: the chain has grown twice
C5_Witness ==
    /\ BF.cls = "scalableBloomFilter"
    /\ Len(BF.filters) >= 3

\* in every filter x counts the set bits and lies in 0..m
CounterCountsBits ==
    \A i \in 1 .. Len(Filters(BF)) :
        LET f == Filters(BF)[i]
        IN  f.x = PopCount(f) /\ 0 <= f.x /\ f.x <= f.m

\* no filter goes away, no bit goes from 1 to 0, no x decreases
BitsOnlySet ==
    \A i \in 1 .. Len(Filters(BF)) :
        /\ i <= Len(Filters(BF'))
        /\ LET f == Filters(BF)[i]
               g == Filters(BF')[i]
           IN  /\ g.x >= f.x
               /\ \A b \in DOMAIN f.bit_array : f.bit_array[b] = 1 => g.bit_array[b] = 1

\* C6: in every filter (a basic or sized filter, each filter of a chain) x
\* equals the number of 1 bits of bit_array and 0 <= x <= m; no call clears
\* a bit or decreases x.
C6_SetBitCounter == [](CounterCountsBits) /\ [][BitsOnlySet]_vars

\* C6 happens: items were added whose bit positions coincide
C6_Witness ==
    /\ BF.cls = "bloomFilter"
    /\ BF.x >= 2
    /\ BF.x < BF.m
    /\ BF.x < BF.k * Cardinality(added)

\* the least integer >= a, the greatest integer <= a
RCeil(a) == -((-a[1]) \div a[2])

RFloor(a) == a[1] \div a[2]

\* C7: bloomFilter(cap, fpr) has m = ceil(-cap * ln(fpr) / (ln 2)^2) and
\* k = floor(-log2(fpr)); cap = 100, fpr = 0.1 gives m = 480, k = 3.
C7_ParameterDerivation ==
    BF.cls = "bloomFilter" =>
        /\ BF.m = RCeil(RDiv(RMul(RNeg(BF.n), math_log(BF.p)),
                             math_pow2(math_log(float(2)))))
        /\ BF.k = RFloor(RNeg(math_log2(BF.p)))
        /\ (BF.n = <<100, 1>> /\ BF.p = <<1, 10>>) => (BF.m = 480 /\ BF.k = 3)

\* the documented ranges of the constructors' arguments
InRange(a) ==
    IF a.cls = "bloomFilterBasic" THEN a.n_bits > 0 /\ a.n_hash > 0
    ELSE IF a.cls = "bloomFilter"
    THEN RLt(float(0), a.cap) /\ RLt(float(0), a.fpr) /\ RLt(a.fpr, float(1))
    ELSE /\ RLt(float(0), a.fpr) /\ RLt(a.fpr, float(1))
         /\ RLt(float(0), a.cap0)
         /\ RLt(float(1), a.s)
         /\ RLt(float(0), a.r) /\ RLt(a.r, float(1))

\* C8: bloomFilter(cap, fpr) and scalableBloomFilter(fpr, cap0, s, r)
\* succeed on their whole documented range, each filter with m >= 1 and
\* k >= 1.
C8_ConstructorsAcceptRange ==
    (op = <<"__init__">> /\ args.cls # "bloomFilterBasic" /\ InRange(args)) =>
        /\ raised = "none"
        /\ BF.cls = args.cls
        /\ \A i \in 1 .. Len(Filters(BF)) : Filters(BF)[i].m >= 1 /\ Filters(BF)[i].k >= 1

\* C9: a constructor call with an argument out of range raises and leaves
\* no object: no bit array, no filter list.
C9_OutOfRangeRejected ==
    (op # <<>> /\ ~InRange(args)) =>
        (BF.cls = "none" /\ raised = "AssertionError" /\ ret = None)

\* C9 happens: scalableBloomFilter with s = 1 and the rest in range raised
C9_Witness ==
    /\ op = <<"__init__">>
    /\ args.cls = "scalableBloomFilter"
    /\ args.s = <<1, 1>>
    /\ RLt(float(0), args.fpr) /\ RLt(args.fpr, float(1))
    /\ RLt(float(0), args.cap0)
    /\ RLt(float(0), args.r) /\ RLt(args.r, float(1))
    /\ raised = "AssertionError"

\* C10: on a filter with every bit set (x = m) approximate_num_items and
\* is_at_capacity do not raise, and is_at_capacity returns True.
C10_FullSaturation ==
    (/\ BF.cls \in {"bloomFilterBasic", "bloomFilter"}
     /\ BF.x = BF.m
     /\ op[1] \in {"approximate_num_items", "is_at_capacity"}) =>
        /\ raised = "none"
        /\ op[1] = "is_at_capacity" => ret = <<TRUE>>

\* C11: add_item or query_item of an item without a usable hash, on a filter
\* of any class, raises and leaves the object as it was: no bit set, no x
\* changed, and the chain, cap_current, fpr_current of a scalable filter
\* unchanged.
C11_UnhashableNoEffect ==
    [][(BF.cls # "none" /\ Len(op') = 2 /\ hash_raises(op'[2])) =>
           (raised' = "TypeError" /\ ret' = None /\ BF' = BF)]_vars

\* C11 happens: add_item([]) has raised on a filter that holds items
C11_Witness ==
    /\ BF.cls \in {"bloomFilterBasic", "scalableBloomFilter"}
    /\ added # {}
    /\ op = <<"add_item", EmptyList>>
    /\ raised = "TypeError"

\* a + b
RAdd(a, b) ==
    LET g == GCD(a[2], b[2])
    IN  <<a[1] * (b[2] \div g) + b[1] * (a[2] \div g), a[2] * (b[2] \div g)>>

\* the sum of the target rates p of the filters chain[i], chain[i + 1], ...
RECURSIVE RateSum(_, _)
RateSum(chain, i) ==
    IF i > Len(chain) THEN float(0) ELSE RAdd(chain[i].p, RateSum(chain, i + 1))

\* C12: in a scalable filter constructed with fpr and any permitted r, the
\* target rates of the filters of the chain sum to at most fpr, however
\* often the chain has grown.
C12_AggregateBudget ==
    BF.cls = "scalableBloomFilter" => ~RLt(args.fpr, RateSum(BF.filters, 1))

\* some filter of the chain answers True for item
SomeFilterPositive(chain, item) ==
    \E i \in 1 .. Len(chain) : bloomFilterBasic_query_item(chain[i], item).ret[1]

\* C13: query_item(item) of a scalable filter returns True exactly if
\* query_item(item) of at least one filter of the chain returns True, for
\* every item in every reachable state.
C13_QueryIsDisjunction ==
    BF.cls = "scalableBloomFilter" =>
        /\ \A item \in Items : Positive(BF, item) <=> SomeFilterPositive(BF.filters, item)
        /\ (op[1] = "query_item" /\ op[2] \in Items) =>
               ret = <<SomeFilterPositive(BF.filters, op[2])>>

\* C13 happens: a query returned True that only a later filter of the chain
\* answers True
C13_Witness ==
    /\ BF.cls = "scalableBloomFilter"
    /\ Len(BF.filters) >= 2
    /\ op[1] = "query_item" /\ op[2] \in Items
    /\ ~bloomFilterBasic_query_item(BF.filters[1], op[2]).ret[1]
    /\ ret = <<TRUE>>

\* the bit positions of item in the filter f
Positions(f, item) == {_compute_hash(f, item, i) : i \in 0 .. f.k - 1}

\* is_at_capacity() of f returns True
Saturated(f) ==
    LET c == is_at_capacity(f) IN c.raised = "none" /\ c.ret[1]

\* g is f with the bits of item set, and nothing else changed
Inserted(f, g, item) ==
    /\ g.m = f.m /\ g.k = f.k /\ g.n = f.n /\ g.p = f.p
    /\ \A b \in DOMAIN g.bit_array :
          g.bit_array[b] = 1 <=> (f.bit_array[b] = 1 \/ b \in Positions(f, item))

\* the filters 1 .. j of the chain are in obj2 what they are in obj
SameUpTo(obj, obj2, j) == \A i \in 1 .. j : obj2.filters[i] = obj.filters[i]

\* f holds the bits of item and no other bit
HoldsOnly(f, item) ==
    \A b \in DOMAIN f.bit_array : f.bit_array[b] = 1 <=> b \in Positions(f, item)

\* C14: add_item(item) of a scalable filter appends a filter exactly if
\* query_item(item) was False and the last filter was at capacity when the
\* call began; then one filter is appended and item goes into it alone.  If
\* query_item(item) was False and the last filter was not at capacity, item
\* goes into the last filter and the chain keeps its length.
C14_GrowthTrigger ==
    [][\A item \in Items :
          (BF.cls = "scalableBloomFilter" /\ op' = <<"add_item", item>>) =>
              LET len  == Len(BF.filters)
                  q    == Positive(BF, item)
                  sat  == Saturated(BF.filters[len])
              IN  /\ Len(BF'.filters) # len <=> (~q /\ sat)
                  /\ (~q /\ sat) =>
                        /\ Len(BF'.filters) = len + 1
                        /\ SameUpTo(BF, BF', len)
                        /\ HoldsOnly(BF'.filters[len + 1], item)
                  /\ (~q /\ ~sat) =>
                        /\ SameUpTo(BF, BF', len - 1)
                        /\ Inserted(BF.filters[len], BF'.filters[len], item)]_vars

\* C14 happens: the last add_item call appended the filter that now holds
\* its item alone
C14_Witness ==
    /\ BF.cls = "scalableBloomFilter"
    /\ Len(BF.filters) >= 2
    /\ op[1] = "add_item" /\ op[2] \in Items /\ raised = "none" /\ ~again
    /\ ~SomeFilterPositive(SubSeq(BF.filters, 1, Len(BF.filters) - 1), op[2])
    /\ HoldsOnly(BF.filters[Len(BF.filters)], op[2])

\* the chain of a scalable filter is not empty
ChainNotEmpty == BF.cls = "scalableBloomFilter" => Len(BF.filters) >= 1

\* a step keeps every filter at its index with its m and k, and changes
\* none but the filter that is last after it
ChainAppendOnly ==
    BF.cls = "scalableBloomFilter" =>
        /\ BF'.cls = "scalableBloomFilter"
        /\ Len(BF'.filters) >= Len(BF.filters)
        /\ \A i \in 1 .. Len(BF.filters) :
              /\ BF'.filters[i].m = BF.filters[i].m
              /\ BF'.filters[i].k = BF.filters[i].k
              /\ i < Len(BF'.filters) => BF'.filters[i] = BF.filters[i]

\* C15: the chain of a scalable filter is never empty and never shrinks,
\* its filters keep their index, and a call changes the bits of at most the
\* filter that is last after the call: every earlier filter keeps its bit
\* array, x, m and k.
C15_AppendOnlyChain == [](ChainNotEmpty) /\ [][ChainAppendOnly]_vars

\* C15 happens: after growth, add_item has put a second item into the new
\* last filter
C15_Witness ==
    /\ BF.cls = "scalableBloomFilter"
    /\ Len(BF.filters) >= 2
    /\ op[1] = "add_item"
    /\ raised = "none"
    /\ BF.filters[Len(BF.filters)].x > BF.filters[Len(BF.filters)].k

\* C16: a query_item call, whatever it returns, on a filter of any class
\* leaves the object as it was (every bit array, x, m, k, the chain,
\* cap_current, fpr_current); a constructed object changes in add_item
\* calls only.
C16_QueryReadOnly ==
    [][/\ op'[1] = "query_item" => BF' = BF
       /\ (BF.cls # "none" /\ BF' # BF) => op'[1] = "add_item"]_vars

\* C16 happens: on a sized filter that holds items, query_item returned
\* False for an item not added
C16_Witness ==
    /\ BF.cls = "bloomFilter"
    /\ added # {}
    /\ op[1] = "query_item" /\ op[2] \in Items \ added
    /\ ret = <<FALSE>>

\* every bit of the last filter of the chain is set
LastFull(obj) ==
    LET f == obj.filters[Len(obj.filters)] IN f.x = f.m

\* no call on a scalable filter has raised math.log's ValueError, and a
\* chain whose last filter is full answers True for every item
NeverLogOfZero ==
    BF.cls = "scalableBloomFilter" =>
        /\ raised # "ValueError"
        /\ LastFull(BF) => \A item \in Items : Positive(BF, item)

\* add_item on a chain whose last filter is full returns and changes nothing
FullReturnsEarly ==
    (BF.cls = "scalableBloomFilter" /\ LastFull(BF) /\ op'[1] = "add_item"
        /\ op'[2] \in Items) => (raised' = "none" /\ BF' = BF)

\* C17: on a scalable filter whose last filter has x = m, query_item is True
\* for every item, so add_item returns before is_at_capacity; no sequence
\* of add_item / query_item calls on a scalable filter raises the
\* ValueError of approximate_num_items.
C17_NoFullSaturationCheck == [](NeverLogOfZero) /\ [][FullReturnsEarly]_vars

\* C17 happens: add_item of a new item has returned on a one-filter chain
\* that the items added before had filled
C17_Witness ==
    /\ BF.cls = "scalableBloomFilter"
    /\ Len(BF.filters) = 1
    /\ op[1] = "add_item" /\ op[2] \in Items /\ ~again /\ raised = "none"
    /\ UNION {Positions(BF.filters[1], j) : j \in added \ {op[2]}}
           = DOMAIN BF.filters[1].bit_array

\* every filter of the chain but the last is at capacity
AllButLastSaturated ==
    BF.cls = "scalableBloomFilter" =>
        \A i \in 1 .. Len(BF.filters) - 1 : Saturated(BF.filters[i])

\* add_item leaves a filter that is at capacity when the call begins as it is
SaturatedUntouched ==
    (BF.cls = "scalableBloomFilter" /\ op'[1] = "add_item") =>
        \A i \in 1 .. Len(BF.filters) :
            Saturated(BF.filters[i]) => BF'.filters[i] = BF.filters[i]

\* C18: in a scalable filter is_at_capacity() is True of every filter but
\* the last, and a filter that is at capacity when an add_item call begins
\* gets no bit in that call.
C18_EarlierFiltersSaturated == [](AllButLastSaturated) /\ [][SaturatedUntouched]_vars

\* C18 happens: add_item has written to the third filter of a chain whose
\* first two are at capacity
C18_Witness ==
    /\ BF.cls = "scalableBloomFilter"
    /\ Len(BF.filters) >= 3
    /\ Saturated(BF.filters[1]) /\ Saturated(BF.filters[2])
    /\ op[1] = "add_item" /\ op[2] \in Items /\ raised = "none"
    /\ ~SomeFilterPositive(SubSeq(BF.filters, 1, Len(BF.filters) - 1), op[2])
====
